---- MODULE Spec2Model ----
(***************************************************************************)
(* MedGPT backend: the appointment endpoints (app/routes/appointments.py)  *)
(* and the chat endpoints (app/routes/chatbot.py) as a state machine over  *)
(* the relational store.  Every handler is cut at its storage calls: one   *)
(* action per call, each of which may succeed or raise.  The store is the  *)
(* Storage Gateway of the specification: request-scoped connections with   *)
(* explicit commit, rollback and close, and no constraint on the tables    *)
(* beyond their columns.  A connection reads the committed rows and its    *)
(* own writes, which it keeps in txn until commit.                         *)
(*                                                                         *)
(* Request bodies are JSON objects whose fields are text (doctor_id an     *)
(* integer); a missing field and an empty one are both falsy, as for       *)
(* data.get(field).                                                        *)
(***************************************************************************)
EXTENDS Integers, Sequences, FiniteSets, TLC

\* ---------------------------------------------------------------- bounds
\* values the appointments id sequence may hand out
MaxAppts == 2
\* rows of chat_history
MaxChat == 2
\* requests in flight at once under SpecConc
NumConns == 2

Reqs == 1..NumConns
\* the sequential specifications serve one request at a time, on slot 1
SeqReqs == {1}

\* Python's None / SQL NULL / an absent optional field
None == "None"

\* ------------------------------------------------------- dates and times
ValueError == -1

\* datetime.strptime(s, '%Y-%m-%d').date(), as a day ordinal; strptime takes
\* digits without zero padding
ParseDate(s) ==
    CASE s = "2030-01-01" -> 1
      [] s = "2030-01-02" -> 2
      [] s = "2030-1-2" -> 2
      [] OTHER -> ValueError

\* datetime.strptime(s, '%H:%M').time(), as minutes since midnight
ParseTime(s) ==
    CASE s = "09:00" -> 540
      [] s = "9:00" -> 540
      [] s = "10:00" -> 600
      [] OTHER -> ValueError

\* datetime.combine(date, time), in minutes
Combine(d, t) == d * 1440 + t

\* date.isoformat()
FormatDate(d) ==
    CASE d = 1 -> "2030-01-01"
      [] d = 2 -> "2030-01-02"

\* time.strftime('%H:%M')
FormatTime(t) ==
    CASE t = 540 -> "09:00"
      [] t = 600 -> "10:00"

\* the moments datetime.now() takes while requests are processed:
\* 2030-01-01 10:00, then 2030-01-02 09:00
ClockInstants == {Combine(1, 600), Combine(2, 540)}

\* ------------------------------------------------------------ the tables
\* doctors(id, name, specialization, is_verified); read-only for this service
doctors ==
    { [id |-> 1, name |-> "Dr. Rao", specialization |-> "cardiology", is_verified |-> TRUE],
      [id |-> 2, name |-> "Dr. Sen", specialization |-> "neurology", is_verified |-> FALSE] }

\* the values CURRENT_TIMESTAMP and the column defaults produce
CurrentTimestamp == "CURRENT_TIMESTAMP"
DefaultStatus == "pending"

VARIABLES
    \* committed rows of appointments
    appointments,
    \* last value handed out by the appointments id sequence (never rolled back)
    appt_seq,
    \* committed rows of chat_history, in created_at order
    chat_history,
    \* datetime.now()
    now,
    \* per request slot: the handler's position, locals, connection and response
    req

vars == <<appointments, appt_seq, chat_history, now, req>>

\* --------------------------------------------------------------- requests
NoResp == [code |-> 0, error |-> "", body |-> <<>>]
Err(code, msg) == [code |-> code, error |-> msg, body |-> <<>>]
Ok(body) == [code |-> 200, error |-> "", body |-> body]

NoDoctor == [id |-> 0, name |-> "", specialization |-> "", is_verified |-> FALSE]

Idle ==
    [ pc |-> "idle", kind |-> "none", data |-> <<>>,
      \* the connection get_db_connection() returned: none, open, closed
      conn |-> "none",
      \* how many connections the request has checked out
      acquired |-> 0,
      \* rows written on the connection and not yet committed
      txn |-> {},
      doctor |-> NoDoctor,
      appointment_id |-> 0,
      rows |-> <<>>,
      user_message |-> "", session_id |-> "", bot_response |-> "",
      resp |-> NoResp,
      \* the first storage call that raised, and whether conn.rollback() ran
      fault |-> "none",
      rolled_back |-> FALSE,
      \* datetime.now() as the handler read it, and the committed
      \* appointments when the request arrived
      clock |-> 0,
      before |-> {} ]

Init ==
    /\ appointments = {}
    /\ appt_seq = 0
    /\ chat_history = <<>>
    /\ now = Combine(1, 600)
    /\ req = [r \in Reqs |-> Idle]

AllIdle == \A q \in Reqs : req[q].pc = "idle"

Set(r, rec) == req' = [req EXCEPT ![r] = rec]

\* a request arrives at an idle slot: validation has answered (resp.code # 0)
\* or the handler goes on to check out a connection
Arrive(kind, data, resp, pc) ==
    [Idle EXCEPT !.pc = IF resp.code = 0 THEN pc ELSE "done",
                 !.kind = kind, !.data = data, !.resp = resp,
                 !.clock = now, !.before = appointments]

\* a storage call raised: remember the first
Faulted(q, call) == IF q.fault = "none" THEN [q EXCEPT !.fault = call] ELSE q

\* ------------------------------------------------------------------ clock
Tick ==
    /\ \E t \in ClockInstants : t > now /\ now' = t
    /\ UNCHANGED <<appointments, appt_seq, chat_history, req>>

\* =================================================================== Book
PatientNames == {"", "Jane Doe"}
PatientEmails == {"", "jane@x.com"}
\* 0: absent or falsy; 1: verified; 2: not verified; 3: no such doctor
DoctorIds == {0, 1, 2, 3}
DateTexts == {"", "02/01/2030", "2030-01-01", "2030-01-02", "2030-1-2"}
TimeTexts == {"", "9am", "9:00", "10:00"}

BookInputs ==
    [ patient_name : PatientNames, patient_email : PatientEmails,
      patient_phone : {""}, doctor_id : DoctorIds,
      appointment_date : DateTexts, appointment_time : TimeTexts, reason : {""} ]

required_fields ==
    <<"patient_name", "patient_email", "doctor_id", "appointment_date", "appointment_time">>

\* not data.get(field)
Falsy(data, field) ==
    IF field = "doctor_id" THEN data.doctor_id = 0 ELSE data[field] = ""

MissingFields(data) ==
    {i \in 1..Len(required_fields) : Falsy(data, required_fields[i])}

FirstMissing(data) ==
    required_fields[CHOOSE i \in MissingFields(data) : \A j \in MissingFields(data) : i <= j]

RequiredMessage(field) ==
    CASE field = "patient_name" -> "patient_name is required"
      [] field = "patient_email" -> "patient_email is required"
      [] field = "doctor_id" -> "doctor_id is required"
      [] field = "appointment_date" -> "appointment_date is required"
      [] field = "appointment_time" -> "appointment_time is required"

WellFormed(data) ==
    /\ ParseDate(data.appointment_date) # ValueError
    /\ ParseTime(data.appointment_time) # ValueError

appointment_datetime(data) ==
    Combine(ParseDate(data.appointment_date), ParseTime(data.appointment_time))

\* the comparison with the boundary moment let through
NotInFutureStrict(dt, clock) == dt < clock

\* appointment_datetime <= datetime.now()
NotInFuture(dt, clock) == dt <= clock

\* lines 14-38: the answer of validation, NoResp when the request passes
BookValidate(data, clock) ==
    IF MissingFields(data) # {} THEN Err(400, RequiredMessage(FirstMissing(data)))
    ELSE IF ~WellFormed(data) THEN Err(400, "Invalid date or time format")
    ELSE IF NotInFuture(appointment_datetime(data), clock)
         THEN Err(400, "Appointment must be scheduled for a future date and time")
    ELSE NoResp

\* SELECT id, name FROM doctors WHERE id = %s AND is_verified = TRUE
VerifiedDoctors(doctor_id) ==
    {d \in doctors : d.id = doctor_id /\ d.is_verified}

\* status NOT IN ('cancelled', 'completed')
Active(a) == a.status \notin {"cancelled", "completed"}

\* the conflict check counting confirmed appointments only
ConflictRowsConfirmedOnly(rows, data) ==
    {a \in rows : /\ a.doctor_id = data.doctor_id
                  /\ a.appointment_date = ParseDate(data.appointment_date)
                  /\ a.appointment_time = ParseTime(data.appointment_time)
                  /\ a.status = "confirmed"}

\* SELECT id FROM appointments WHERE doctor_id = %s AND appointment_date = %s
\* AND appointment_time = %s AND status NOT IN ('cancelled', 'completed')
ConflictRows(rows, data) ==
    {a \in rows : /\ a.doctor_id = data.doctor_id
                  /\ a.appointment_date = ParseDate(data.appointment_date)
                  /\ a.appointment_time = ParseTime(data.appointment_time)
                  /\ Active(a)}

\* INSERT INTO appointments (...) VALUES (...) RETURNING id; the columns the
\* statement leaves out take their defaults
NewRow(id, data) ==
    [ id |-> id,
      patient_name |-> data.patient_name, patient_email |-> data.patient_email,
      patient_phone |-> data.patient_phone, doctor_id |-> data.doctor_id,
      appointment_date |-> ParseDate(data.appointment_date),
      appointment_time |-> ParseTime(data.appointment_time),
      reason |-> data.reason,
      status |-> DefaultStatus, notes |-> None,
      created_at |-> CurrentTimestamp, updated_at |-> None ]

\* a commit that stores nothing
CommittedNothing(rows, txn) == rows

\* conn.commit(): the rows written on the connection replace or join the
\* committed ones
Committed(rows, txn) ==
    {a \in rows : \A w \in txn : w.id # a.id} \cup txn

\* what a statement on the connection of q reads: the committed rows and the
\* connection's own uncommitted writes
Visible(q) == Committed(appointments, q.txn)

BookBody(q) ==
    [ message |-> "Appointment booked successfully",
      appointment_id |-> q.appointment_id,
      doctor_name |-> q.doctor.name,
      appointment_date |-> q.data.appointment_date,
      appointment_time |-> q.data.appointment_time ]

\* Book requests that may still draw an id from the sequence
Drawing == {q \in Reqs : req[q].kind = "book" /\ req[q].pc \in {"connect", "doctor", "conflict", "insert"}}

BookArrive(r, data) ==
    /\ req[r].pc = "idle"
    /\ appt_seq + Cardinality(Drawing) < MaxAppts
    /\ Set(r, Arrive("book", data, BookValidate(data, now), "connect"))
    /\ UNCHANGED <<appointments, appt_seq, chat_history, now>>

\* POST /api/book, up to the answer of validation
BookRequest(r) ==
    /\ AllIdle
    /\ \E data \in BookInputs : BookArrive(r, data)

\* conn = get_db_connection(); outside the inner try
BookConnect(r) ==
    LET q == req[r] IN
    /\ q.kind = "book" /\ q.pc = "connect"
    /\ \E raised \in BOOLEAN :
         Set(r, IF ~raised
                THEN [q EXCEPT !.conn = "open", !.acquired = @ + 1, !.pc = "doctor"]
                ELSE [Faulted(q, "connect") EXCEPT
                         !.resp = Err(500, "Internal server error"), !.pc = "done"])
    /\ UNCHANGED <<appointments, appt_seq, chat_history, now>>

BookDoctor(r) ==
    LET q == req[r]
        found == VerifiedDoctors(q.data.doctor_id) IN
    /\ q.kind = "book" /\ q.pc = "doctor"
    /\ \E raised \in BOOLEAN :
         Set(r, IF raised THEN [Faulted(q, "doctor") EXCEPT !.pc = "except"]
                ELSE IF found = {}
                THEN [q EXCEPT !.resp = Err(404, "Doctor not found or not verified"),
                               !.pc = "finally"]
                ELSE [q EXCEPT !.doctor = CHOOSE d \in found : TRUE, !.pc = "conflict"])
    /\ UNCHANGED <<appointments, appt_seq, chat_history, now>>

BookConflict(r) ==
    LET q == req[r] IN
    /\ q.kind = "book" /\ q.pc = "conflict"
    /\ \E raised \in BOOLEAN :
         Set(r, IF raised THEN [Faulted(q, "conflict") EXCEPT !.pc = "except"]
                ELSE IF ConflictRows(Visible(q), q.data) # {}
                THEN [q EXCEPT !.resp = Err(409, "This time slot is already booked"),
                               !.pc = "finally"]
                ELSE [q EXCEPT !.pc = "insert"])
    /\ UNCHANGED <<appointments, appt_seq, chat_history, now>>

BookInsert(r) ==
    LET q == req[r] IN
    /\ q.kind = "book" /\ q.pc = "insert"
    /\ \E raised \in BOOLEAN :
         IF ~raised
         THEN /\ appt_seq' = appt_seq + 1
              /\ Set(r, [q EXCEPT !.txn = {NewRow(appt_seq + 1, q.data)},
                                  !.appointment_id = appt_seq + 1, !.pc = "commit"])
         ELSE /\ appt_seq' = appt_seq
              /\ Set(r, [Faulted(q, "insert") EXCEPT !.pc = "except"])
    /\ UNCHANGED <<appointments, chat_history, now>>

BookCommit(r) ==
    LET q == req[r] IN
    /\ q.kind = "book" /\ q.pc = "commit"
    /\ \E raised \in BOOLEAN :
         IF ~raised
         THEN /\ appointments' = Committed(appointments, q.txn)
              /\ Set(r, [q EXCEPT !.txn = {}, !.resp = Ok(BookBody(q)), !.pc = "finally"])
         ELSE /\ appointments' = appointments
              /\ Set(r, [Faulted(q, "commit") EXCEPT !.pc = "except"])
    /\ UNCHANGED <<appt_seq, chat_history, now>>

\* except Exception: conn.rollback(); a rollback that raises leaves through
\* the finally clause to the outer handler
BookExcept(r) ==
    LET q == req[r] IN
    /\ q.kind = "book" /\ q.pc = "except"
    /\ \E raised \in BOOLEAN :
         Set(r, IF ~raised
                THEN [q EXCEPT !.txn = {}, !.rolled_back = TRUE,
                               !.resp = Err(500, "Failed to book appointment"),
                               !.pc = "finally"]
                ELSE [Faulted(q, "rollback") EXCEPT
                         !.resp = Err(500, "Internal server error"), !.pc = "finally"])
    /\ UNCHANGED <<appointments, appt_seq, chat_history, now>>

\* finally: conn.close(); a close that raises replaces the pending answer
BookClose(r) ==
    LET q == req[r] IN
    /\ q.kind = "book" /\ q.pc = "finally"
    /\ \E raised \in BOOLEAN :
         Set(r, IF ~raised
                THEN [q EXCEPT !.conn = "closed", !.txn = {}, !.pc = "done"]
                ELSE [Faulted(q, "close") EXCEPT
                         !.resp = Err(500, "Internal server error"), !.pc = "done"])
    /\ UNCHANGED <<appointments, appt_seq, chat_history, now>>

\* the answer has gone out; the slot serves the next request
Finish(r) ==
    /\ req[r].pc = "done"
    /\ Set(r, Idle)
    /\ UNCHANGED <<appointments, appt_seq, chat_history, now>>

\* ================================================================= Update
\* ids of the path /api/appointments/<int:appointment_id>
AppointmentIds == 1..(MaxAppts + 1)
StatusTexts == {None, "pending", "confirmed", "completed", "cancelled", "archived"}
NotesTexts == {None}

UpdateInputs == [appointment_id : AppointmentIds, status : StatusTexts, notes : NotesTexts]

\* the status list with one value too many
ValidStatusesWide == {"pending", "confirmed", "completed", "cancelled", "archived"}

\* ['pending', 'confirmed', 'completed', 'cancelled']
ValidStatuses == {"pending", "confirmed", "completed", "cancelled"}

\* data.get('notes', '')
NotesOf(data) == IF data.notes = None THEN "" ELSE data.notes

\* lines 151-155
UpdateValidate(data) ==
    IF data.status \notin ValidStatuses THEN Err(400, "Invalid status") ELSE NoResp

\* the statement without its WHERE clause
UpdatedRowsNoWhere(rows, data) ==
    IF \E b \in rows : b.id = data.appointment_id
    THEN { [a EXCEPT !.status = data.status, !.notes = NotesOf(data),
                     !.updated_at = CurrentTimestamp] : a \in rows }
    ELSE {}

\* UPDATE appointments SET status = %s, notes = %s, updated_at = CURRENT_TIMESTAMP
\* WHERE id = %s RETURNING id: the rows as the statement leaves them
UpdatedRows(rows, data) ==
    { [a EXCEPT !.status = data.status, !.notes = NotesOf(data),
                !.updated_at = CurrentTimestamp] :
        a \in {b \in rows : b.id = data.appointment_id} }

\* PUT /api/appointments/<id>, up to the answer of validation
UpdateRequest(r) ==
    /\ AllIdle
    /\ \E data \in UpdateInputs : Set(r, Arrive("update", data, UpdateValidate(data), "connect"))
    /\ UNCHANGED <<appointments, appt_seq, chat_history, now>>

\* conn = get_db_connection(); outside the inner try
UpdateConnect(r) ==
    LET q == req[r] IN
    /\ q.kind = "update" /\ q.pc = "connect"
    /\ \E raised \in BOOLEAN :
         Set(r, IF ~raised
                THEN [q EXCEPT !.conn = "open", !.acquired = @ + 1, !.pc = "execute"]
                ELSE [Faulted(q, "connect") EXCEPT
                         !.resp = Err(500, "Internal server error"), !.pc = "done"])
    /\ UNCHANGED <<appointments, appt_seq, chat_history, now>>

UpdateExecute(r) ==
    LET q == req[r]
        written == UpdatedRows(Visible(q), q.data) IN
    /\ q.kind = "update" /\ q.pc = "execute"
    /\ \E raised \in BOOLEAN :
         Set(r, IF raised THEN [Faulted(q, "execute") EXCEPT !.pc = "except"]
                ELSE IF written = {}
                THEN [q EXCEPT !.resp = Err(404, "Appointment not found"), !.pc = "finally"]
                ELSE [q EXCEPT !.txn = written, !.pc = "commit"])
    /\ UNCHANGED <<appointments, appt_seq, chat_history, now>>

UpdateCommit(r) ==
    LET q == req[r] IN
    /\ q.kind = "update" /\ q.pc = "commit"
    /\ \E raised \in BOOLEAN :
         IF ~raised
         THEN /\ appointments' = Committed(appointments, q.txn)
              /\ Set(r, [q EXCEPT !.txn = {},
                                  !.resp = Ok([message |-> "Appointment updated successfully"]),
                                  !.pc = "finally"])
         ELSE /\ appointments' = appointments
              /\ Set(r, [Faulted(q, "commit") EXCEPT !.pc = "except"])
    /\ UNCHANGED <<appt_seq, chat_history, now>>

UpdateExcept(r) ==
    LET q == req[r] IN
    /\ q.kind = "update" /\ q.pc = "except"
    /\ \E raised \in BOOLEAN :
         Set(r, IF ~raised
                THEN [q EXCEPT !.txn = {}, !.rolled_back = TRUE,
                               !.resp = Err(500, "Failed to update appointment"),
                               !.pc = "finally"]
                ELSE [Faulted(q, "rollback") EXCEPT
                         !.resp = Err(500, "Internal server error"), !.pc = "finally"])
    /\ UNCHANGED <<appointments, appt_seq, chat_history, now>>

UpdateClose(r) ==
    LET q == req[r] IN
    /\ q.kind = "update" /\ q.pc = "finally"
    /\ \E raised \in BOOLEAN :
         Set(r, IF ~raised
                THEN [q EXCEPT !.conn = "closed", !.txn = {}, !.pc = "done"]
                ELSE [Faulted(q, "close") EXCEPT
                         !.resp = Err(500, "Internal server error"), !.pc = "done"])
    /\ UNCHANGED <<appointments, appt_seq, chat_history, now>>

\* =================================================================== List
\* request.args.get('doctor_id'), request.args.get('status')
DoctorArgs == {None, "1", "2", "abc"}
StatusArgs == {None, "pending", "cancelled"}
ListInputs == [doctor_id : DoctorArgs, status : StatusArgs]

\* the integer a doctor_id argument is compared as; text that is no integer
\* makes the statement fail
ParseInt(s) ==
    CASE s = "1" -> 1
      [] s = "2" -> 2
      [] OTHER -> ValueError

\* if doctor_id: / if status:
Given(arg) == arg # None /\ arg # ""

QueryFails(args) == Given(args.doctor_id) /\ ParseInt(args.doctor_id) = ValueError

\* FROM appointments a JOIN doctors d ON a.doctor_id = d.id WHERE 1=1
\* [AND a.doctor_id = %s] [AND a.status = %s]
MatchingRows(rows, args) ==
    {a \in rows : /\ \E d \in doctors : d.id = a.doctor_id
                  /\ Given(args.doctor_id) => a.doctor_id = ParseInt(args.doctor_id)
                  /\ Given(args.status) => a.status = args.status}

\* ORDER BY a.appointment_date DESC, a.appointment_time DESC: every order of
\* the rows the clause allows
Orderings(S) ==
    {s \in [1..Cardinality(S) -> S] :
        /\ \A i, j \in 1..Cardinality(S) : i # j => s[i] # s[j]
        /\ \A i \in 1..(Cardinality(S) - 1) :
             Combine(s[i].appointment_date, s[i].appointment_time)
                >= Combine(s[i + 1].appointment_date, s[i + 1].appointment_time)}

DoctorOf(a) == CHOOSE d \in doctors : d.id = a.doctor_id

\* one record of the "appointments" list of the answer
Listed(apt) ==
    [ id |-> apt.id,
      patient_name |-> apt.patient_name, patient_email |-> apt.patient_email,
      patient_phone |-> apt.patient_phone, doctor_id |-> apt.doctor_id,
      doctor_name |-> DoctorOf(apt).name,
      specialization |-> DoctorOf(apt).specialization,
      appointment_date |-> FormatDate(apt.appointment_date),
      appointment_time |-> FormatTime(apt.appointment_time),
      reason |-> apt.reason, status |-> apt.status, notes |-> apt.notes,
      created_at |-> apt.created_at ]

ListBody(rows) == [appointments |-> [i \in 1..Len(rows) |-> Listed(rows[i])]]

\* GET /api/appointments
ListRequest(r) ==
    /\ AllIdle
    /\ \E args \in ListInputs : Set(r, Arrive("list", args, NoResp, "connect"))
    /\ UNCHANGED <<appointments, appt_seq, chat_history, now>>

ListConnect(r) ==
    LET q == req[r] IN
    /\ q.kind = "list" /\ q.pc = "connect"
    /\ \E raised \in BOOLEAN :
         Set(r, IF ~raised
                THEN [q EXCEPT !.conn = "open", !.acquired = @ + 1, !.pc = "query"]
                ELSE [Faulted(q, "connect") EXCEPT
                         !.resp = Err(500, "Failed to retrieve appointments"),
                         !.pc = "done"])
    /\ UNCHANGED <<appointments, appt_seq, chat_history, now>>

\* cur.execute(query, params); cur.fetchall(): no finally closes the
\* connection when the statement raises
ListQuery(r) ==
    LET q == req[r] IN
    /\ q.kind = "list" /\ q.pc = "query"
    /\ \E raised \in BOOLEAN :
         IF ~raised /\ ~QueryFails(q.data)
         THEN \E rows \in Orderings(MatchingRows(Visible(q), q.data)) :
                 Set(r, [q EXCEPT !.rows = rows, !.pc = "close"])
         ELSE Set(r, [Faulted(q, "query") EXCEPT
                         !.resp = Err(500, "Failed to retrieve appointments"),
                         !.pc = "done"])
    /\ UNCHANGED <<appointments, appt_seq, chat_history, now>>

\* conn.close(), then the answer
ListClose(r) ==
    LET q == req[r] IN
    /\ q.kind = "list" /\ q.pc = "close"
    /\ \E raised \in BOOLEAN :
         Set(r, IF ~raised
                THEN [q EXCEPT !.conn = "closed", !.resp = Ok(ListBody(q.rows)),
                               !.pc = "done"]
                ELSE [Faulted(q, "close") EXCEPT
                         !.resp = Err(500, "Failed to retrieve appointments"),
                         !.pc = "done"])
    /\ UNCHANGED <<appointments, appt_seq, chat_history, now>>

\* =============================================================== Converse
MessageTexts == {None, "   ", "fever?", " fever? "}
SessionTexts == {None, "s1"}
ChatInputs == [message : MessageTexts, session_id : SessionTexts]

\* data.get('message', '').strip()
Strip(m) ==
    CASE m = None -> ""
      [] m = "   " -> ""
      [] m = " fever? " -> "fever?"
      [] OTHER -> m

\* str(uuid.uuid4())
GeneratedIds == {"6f1c-uuid4"}

\* response.text of the model call: absent, empty, or text
ModelTexts == {None, "", "Rest and fluids."}

\* response.text or "I apologize, ..."
BotResponse(text) ==
    IF text = None \/ text = ""
    THEN "I apologize, but I couldn't generate a response. Please try again."
    ELSE text

ChatBody(q) ==
    [response |-> q.bot_response, session_id |-> q.session_id, timestamp |-> "now"]

\* INSERT INTO chat_history (session_id, user_message, bot_response)
ChatTurn(q) ==
    [ session_id |-> q.session_id, user_message |-> q.user_message,
      bot_response |-> q.bot_response, created_at |-> CurrentTimestamp ]

\* the persistence error reaching the outer handler
SaveFailedFatal(q, call) ==
    [Faulted(q, call) EXCEPT
        !.resp = Err(500, "Failed to process your message. Please try again."),
        !.pc = "done"]

\* except Exception as db_error: logged only; the answer goes out all the same
SaveFailed(q, call) ==
    [Faulted(q, call) EXCEPT !.resp = Ok(ChatBody(q)), !.pc = "done"]

\* POST /api/chat, up to the answer of validation
ChatRequest(r) ==
    /\ AllIdle
    /\ Len(chat_history) < MaxChat
    /\ \E data \in ChatInputs, uuid \in GeneratedIds :
         Set(r, [Arrive("chat", data,
                        IF Strip(data.message) = "" THEN Err(400, "Message is required")
                        ELSE NoResp, "generate")
                   EXCEPT !.user_message = Strip(data.message),
                          !.session_id = IF data.session_id = None THEN uuid
                                         ELSE data.session_id])
    /\ UNCHANGED <<appointments, appt_seq, chat_history, now>>

\* client.models.generate_content(...): the call answers or raises
ChatGenerate(r) ==
    LET q == req[r] IN
    /\ q.kind = "chat" /\ q.pc = "generate"
    /\ \/ \E text \in ModelTexts :
            Set(r, [q EXCEPT !.bot_response = BotResponse(text), !.pc = "connect"])
       \/ Set(r, [Faulted(q, "generate") EXCEPT
                     !.resp = Err(500, "Failed to process your message. Please try again."),
                     !.pc = "done"])
    /\ UNCHANGED <<appointments, appt_seq, chat_history, now>>

ChatSaveConnect(r) ==
    LET q == req[r] IN
    /\ q.kind = "chat" /\ q.pc = "connect"
    /\ \E raised \in BOOLEAN :
         Set(r, IF ~raised
                THEN [q EXCEPT !.conn = "open", !.acquired = @ + 1, !.pc = "insert"]
                ELSE SaveFailed(q, "connect"))
    /\ UNCHANGED <<appointments, appt_seq, chat_history, now>>

ChatSaveInsert(r) ==
    LET q == req[r] IN
    /\ q.kind = "chat" /\ q.pc = "insert"
    /\ \E raised \in BOOLEAN :
         Set(r, IF ~raised
                THEN [q EXCEPT !.txn = {ChatTurn(q)}, !.pc = "commit"]
                ELSE SaveFailed(q, "insert"))
    /\ UNCHANGED <<appointments, appt_seq, chat_history, now>>

ChatSaveCommit(r) ==
    LET q == req[r] IN
    /\ q.kind = "chat" /\ q.pc = "commit"
    /\ \E raised \in BOOLEAN :
         IF ~raised
         THEN /\ chat_history' = Append(chat_history, ChatTurn(q))
              /\ Set(r, [q EXCEPT !.txn = {}, !.pc = "close"])
         ELSE /\ chat_history' = chat_history
              /\ Set(r, SaveFailed(q, "commit"))
    /\ UNCHANGED <<appointments, appt_seq, now>>

ChatSaveClose(r) ==
    LET q == req[r] IN
    /\ q.kind = "chat" /\ q.pc = "close"
    /\ \E raised \in BOOLEAN :
         Set(r, IF ~raised
                THEN [q EXCEPT !.conn = "closed", !.resp = Ok(ChatBody(q)), !.pc = "done"]
                ELSE SaveFailed(q, "close"))
    /\ UNCHANGED <<appointments, appt_seq, chat_history, now>>

\* ============================================================ Get History
HistoryInputs == [session_id : {"s1"} \cup GeneratedIds]

\* SELECT user_message, bot_response, created_at FROM chat_history
\* WHERE session_id = %s ORDER BY created_at ASC
SessionTurns(turns, session_id) ==
    SelectSeq(turns, LAMBDA t : t.session_id = session_id)

HistoryBody(rows) ==
    [history |-> [i \in 1..Len(rows) |->
                    [ user_message |-> rows[i].user_message,
                      bot_response |-> rows[i].bot_response,
                      timestamp |-> rows[i].created_at ]]]

\* GET /api/chat/history/<session_id>
HistoryRequest(r) ==
    /\ AllIdle
    /\ \E args \in HistoryInputs : Set(r, Arrive("history", args, NoResp, "connect"))
    /\ UNCHANGED <<appointments, appt_seq, chat_history, now>>

HistoryConnect(r) ==
    LET q == req[r] IN
    /\ q.kind = "history" /\ q.pc = "connect"
    /\ \E raised \in BOOLEAN :
         Set(r, IF ~raised
                THEN [q EXCEPT !.conn = "open", !.acquired = @ + 1, !.pc = "query"]
                ELSE [Faulted(q, "connect") EXCEPT
                         !.resp = Err(500, "Failed to retrieve chat history"),
                         !.pc = "done"])
    /\ UNCHANGED <<appointments, appt_seq, chat_history, now>>

HistoryQuery(r) ==
    LET q == req[r] IN
    /\ q.kind = "history" /\ q.pc = "query"
    /\ \E raised \in BOOLEAN :
         Set(r, IF ~raised
                THEN [q EXCEPT !.rows = SessionTurns(chat_history, q.data.session_id),
                               !.pc = "close"]
                ELSE [Faulted(q, "query") EXCEPT
                         !.resp = Err(500, "Failed to retrieve chat history"),
                         !.pc = "done"])
    /\ UNCHANGED <<appointments, appt_seq, chat_history, now>>

HistoryClose(r) ==
    LET q == req[r] IN
    /\ q.kind = "history" /\ q.pc = "close"
    /\ \E raised \in BOOLEAN :
         Set(r, IF ~raised
                THEN [q EXCEPT !.conn = "closed", !.resp = Ok(HistoryBody(q.rows)),
                               !.pc = "done"]
                ELSE [Faulted(q, "close") EXCEPT
                         !.resp = Err(500, "Failed to retrieve chat history"),
                         !.pc = "done"])
    /\ UNCHANGED <<appointments, appt_seq, chat_history, now>>

\* ===================================================== concurrent bookings
\* well-formed future requests for the verified doctor, two slots
ConcBookInputs ==
    {d \in BookInputs : /\ d.patient_name # "" /\ d.patient_email # ""
                        /\ d.doctor_id = 1
                        /\ d.appointment_date = "2030-01-02"
                        /\ d.appointment_time \in {"9:00", "10:00"}}

\* POST /api/book while other requests are in flight
ConcBookRequest(r) ==
    \E data \in ConcBookInputs : BookArrive(r, data)

\* ========================================================= specifications
Next ==
    \/ Tick
    \/ \E r \in SeqReqs :
         \/ BookRequest(r)
         \/ BookConnect(r)
         \/ BookDoctor(r)
         \/ BookConflict(r)
         \/ BookInsert(r)
         \/ BookCommit(r)
         \/ BookExcept(r)
         \/ BookClose(r)
         \/ UpdateRequest(r)
         \/ UpdateConnect(r)
         \/ UpdateExecute(r)
         \/ UpdateCommit(r)
         \/ UpdateExcept(r)
         \/ UpdateClose(r)
         \/ ListRequest(r)
         \/ ListConnect(r)
         \/ ListQuery(r)
         \/ ListClose(r)
         \/ Finish(r)

\* the appointment endpoints, one request at a time
Spec == Init /\ [][Next]_vars

NextChat ==
    \E r \in SeqReqs :
        \/ ChatRequest(r)
        \/ ChatGenerate(r)
        \/ ChatSaveConnect(r)
        \/ ChatSaveInsert(r)
        \/ ChatSaveCommit(r)
        \/ ChatSaveClose(r)
        \/ HistoryRequest(r)
        \/ HistoryConnect(r)
        \/ HistoryQuery(r)
        \/ HistoryClose(r)
        \/ Finish(r)

\* the chat endpoints, one request at a time
SpecChat == Init /\ [][NextChat]_vars

NextConc ==
    \E r \in Reqs :
        \/ ConcBookRequest(r)
        \/ BookConnect(r)
        \/ BookDoctor(r)
        \/ BookConflict(r)
        \/ BookInsert(r)
        \/ BookCommit(r)
        \/ BookExcept(r)
        \/ BookClose(r)
        \/ Finish(r)

\* Book requests on NumConns connections, their steps interleaved
SpecConc == Init /\ [][NextConc]_vars

\* ============================================================== properties
Done(q, kind) == q.kind = kind /\ q.pc = "done"

SlotOf(a) == <<a.doctor_id, a.appointment_date, a.appointment_time>>

RequestedSlot(data) ==
    <<data.doctor_id, ParseDate(data.appointment_date), ParseTime(data.appointment_time)>>

\* neither cancelled nor completed
Blocking(a) == a.status # "cancelled" /\ a.status # "completed"

Ids(rows) == {a.id : a \in rows}

AllPresent(data) ==
    /\ data.patient_name # "" /\ data.patient_email # "" /\ data.doctor_id # 0
    /\ data.appointment_date # "" /\ data.appointment_time # ""

Parses(data) ==
    ParseDate(data.appointment_date) >= 0 /\ ParseTime(data.appointment_time) >= 0

Moment(data) ==
    ParseDate(data.appointment_date) * 1440 + ParseTime(data.appointment_time)

\* required fields present, well-formed date and time, strictly future
ValidBook(data, clock) == AllPresent(data) /\ Parses(data) /\ Moment(data) > clock

\* answered 400 with msg before any connection was opened, the store as it was
Rejected(q, msg) ==
    /\ q.pc = "done"
    /\ q.resp = [code |-> 400, error |-> msg, body |-> <<>>]
    /\ q.acquired = 0 /\ q.conn = "none"
    /\ appointments = q.before

\* C1: for each (doctor id, date, time) at most one stored appointment has a
\* status outside {cancelled, completed}.
C1_NoDoubleBooking ==
    \A a, b \in appointments :
        (SlotOf(a) = SlotOf(b) /\ Blocking(a) /\ Blocking(b)) => a.id = b.id

C3_ConnectionReleased ==
    \A r \in Reqs : req[r].pc = "done" => (req[r].acquired <= 1 /\ req[r].conn # "open")

\* C4: when the checkout, the doctor lookup, the conflict check, the insert or
\* the commit of Book raises, the transaction is rolled back, the answer is 500
\* "Failed to book appointment" and the stored appointments are as before.
C4_BookFailureRollsBack ==
    \A r \in Reqs :
        (Done(req[r], "book")
            /\ req[r].fault \in {"connect", "doctor", "conflict", "insert", "commit"})
        => /\ req[r].rolled_back
           /\ req[r].resp = [code |-> 500, error |-> "Failed to book appointment",
                             body |-> <<>>]
           /\ appointments = req[r].before

\* the slot of the request held an appointment neither cancelled nor completed
\* when the request arrived
SlotTaken(q) ==
    \E a \in q.before : SlotOf(a) = RequestedSlot(q.data) /\ Blocking(a)

SlotBooked409 == [code |-> 409, error |-> "This time slot is already booked", body |-> <<>>]

\* C5 as stated: a Book request for a slot whose earlier booking is still
\* neither cancelled nor completed is answered 409 "This time slot is already
\* booked" and creates no row.
C5_Original ==
    \A r \in Reqs :
        (Done(req[r], "book") /\ SlotTaken(req[r]))
        => (req[r].resp = SlotBooked409 /\ appointments = req[r].before)

\* C5 as amended: such a request creates no row and does not succeed; it is
\* answered 409 when it passes validation and no storage call raises.
C5_SecondBookingRefused ==
    \A r \in Reqs :
        (Done(req[r], "book") /\ SlotTaken(req[r]))
        => /\ appointments = req[r].before
           /\ req[r].resp.code # 200
           /\ (ValidBook(req[r].data, req[r].clock) /\ req[r].fault = "none")
                => req[r].resp = SlotBooked409

C5_Witness ==
    \E r \in Reqs :
        /\ Done(req[r], "book") /\ SlotTaken(req[r])
        /\ req[r].fault = "none" /\ req[r].resp.code = 409

\* the request is valid, names a verified doctor, and its slot was free
Bookable(q) ==
    /\ ValidBook(q.data, q.clock)
    /\ \E d \in doctors : d.id = q.data.doctor_id /\ d.is_verified
    /\ ~SlotTaken(q)

\* answered 200 with a new id; the row is stored, pending, and the only change
Booked(q) ==
    /\ q.resp.code = 200
    /\ q.resp.body.appointment_id \notin Ids(q.before)
    /\ \E a \in appointments :
          /\ a.id = q.resp.body.appointment_id
          /\ SlotOf(a) = RequestedSlot(q.data)
          /\ a.patient_name = q.data.patient_name
          /\ a.patient_email = q.data.patient_email
          /\ a.status = "pending"
          /\ appointments = q.before \cup {a}

\* a List filtered by a doctor id
ByDoctor(q) ==
    /\ Done(q, "list")
    /\ q.data.doctor_id \in {"1", "2"} /\ q.data.status \in {None, "pending"}

\* answered 200 with every pending appointment of the doctor, as pending
ListsPending(q) ==
    /\ q.resp.code = 200
    /\ \A a \in q.before :
          (a.doctor_id = ParseInt(q.data.doctor_id) /\ a.status = "pending")
          => \E i \in 1..Len(q.resp.body.appointments) :
                /\ q.resp.body.appointments[i].id = a.id
                /\ q.resp.body.appointments[i].status = "pending"

C7_ValidationOrder ==
    \A r \in Reqs :
        LET q == req[r]
            d == q.data IN
        q.kind = "book" =>
          /\ d.patient_name = "" => Rejected(q, "patient_name is required")
          /\ (d.patient_name # "" /\ d.patient_email = "")
               => Rejected(q, "patient_email is required")
          /\ (d.patient_name # "" /\ d.patient_email # "" /\ d.doctor_id = 0)
               => Rejected(q, "doctor_id is required")
          /\ (d.patient_name # "" /\ d.patient_email # "" /\ d.doctor_id # 0
                /\ d.appointment_date = "")
               => Rejected(q, "appointment_date is required")
          /\ (d.patient_name # "" /\ d.patient_email # "" /\ d.doctor_id # 0
                /\ d.appointment_date # "" /\ d.appointment_time = "")
               => Rejected(q, "appointment_time is required")
          /\ (AllPresent(d) /\ ~Parses(d)) => Rejected(q, "Invalid date or time format")
          /\ (AllPresent(d) /\ Parses(d) /\ Moment(d) <= q.clock)
               => Rejected(q, "Appointment must be scheduled for a future date and time")
          /\ (Parses(d) /\ Moment(d) <= q.clock)
               => (q.pc = "done" /\ q.resp.code = 400 /\ q.acquired = 0
                     /\ appointments = q.before)

\* a request for the verified doctor at the very moment the clock shows, its
\* slot taken
C7_Witness ==
    \E r \in Reqs :
        /\ Done(req[r], "book") /\ AllPresent(req[r].data) /\ Parses(req[r].data)
        /\ req[r].data.doctor_id = 1
        /\ Moment(req[r].data) = req[r].clock
        /\ SlotTaken(req[r])
        /\ req[r].resp.code = 400

\* C8: an Update whose status is none of pending, confirmed, completed,
\* cancelled (a missing status included) is answered 400 "Invalid status" and no
\* appointment row is modified.
C8_InvalidStatusRejected ==
    \A r \in Reqs :
        (req[r].kind = "update"
            /\ req[r].data.status \notin {"pending", "confirmed", "completed", "cancelled"})
        => Rejected(req[r], "Invalid status")

C8_Witness ==
    \E r \in Reqs :
        /\ Done(req[r], "update")
        /\ req[r].data.status = None
        /\ req[r].data.appointment_id \in Ids(appointments)
        /\ req[r].resp.code = 400

\* C9: once the model call has answered, Converse returns 200 with that answer
\* and the session id whatever happens to the connection checkout, the insert,
\* the commit or the close; 500 comes only from a failure before persistence.
C9_PersistenceBestEffort ==
    \A r \in Reqs :
        Done(req[r], "chat") =>
          /\ req[r].bot_response # ""
               => req[r].resp = [code |-> 200, error |-> "",
                                 body |-> [response |-> req[r].bot_response,
                                           session_id |-> req[r].session_id,
                                           timestamp |-> "now"]]
          /\ req[r].resp.code = 500
               => /\ req[r].fault = "generate" /\ req[r].bot_response = ""
                  /\ req[r].resp.error = "Failed to process your message. Please try again."

C9_Witness ==
    \E r \in Reqs :
        /\ Done(req[r], "chat")
        /\ req[r].fault \in {"connect", "insert", "commit", "close"}
        /\ req[r].resp.code = 200 /\ req[r].bot_response = "Rest and fluids."

\* b is a with at most status, notes and updated_at changed
SameButStatusNotes(a, b) ==
    [b EXCEPT !.status = a.status, !.notes = a.notes, !.updated_at = a.updated_at] = a

\* every row stays; one that changes keeps all but status, notes and
\* updated_at, and an Update addressing its id is in progress
RowsKept ==
    \A a \in appointments :
        \E b \in appointments' :
            /\ SameButStatusNotes(a, b)
            /\ b # a => \E r \in Reqs : /\ req[r].kind = "update"
                                        /\ req[r].data.appointment_id = a.id

NotFound404 == [code |-> 404, error |-> "Appointment not found", body |-> <<>>]

\* C10 as stated: no row is ever removed, Book changes no existing row, Update
\* changes only status, notes and updated_at of the row with its id; an Update
\* whose id matches no row is answered 404 and changes nothing.
C10_Original ==
    /\ [][RowsKept]_vars
    /\ [](\A r \in Reqs :
            (Done(req[r], "update") /\ req[r].data.appointment_id \notin Ids(req[r].before))
            => (req[r].resp = NotFound404 /\ appointments = req[r].before))

\* C10 as amended: the same frame; an Update with a valid status whose id
\* matches no row changes nothing, and is answered 404 when no storage call
\* raises.
C10_UpdateFrame ==
    /\ [][RowsKept]_vars
    /\ [](\A r \in Reqs :
            ( /\ Done(req[r], "update")
              /\ req[r].data.status \in {"pending", "confirmed", "completed", "cancelled"}
              /\ req[r].data.appointment_id \notin Ids(req[r].before) )
            => /\ appointments = req[r].before
               /\ req[r].fault = "none" => req[r].resp = NotFound404)

\* an Update has changed one of two stored rows
C10_Witness ==
    \E r \in Reqs :
        /\ Done(req[r], "update") /\ req[r].resp.code = 200
        /\ Cardinality(appointments) = 2
        /\ appointments # req[r].before

====
